---- MODULE Spec2Model ----
(***************************************************************************)
(* Requirement tracking and acceptance state machine of @superdoc-dev/esign *)
(*                                                                         *)
(* Two implementations of the signing session are modelled; the variable   *)
(* `variant` says which one a behaviour runs:                              *)
(*   "hook"  - the React component SuperDocESign (forwardRef + hooks)      *)
(*   "class" - the imperative class SuperDocEsign                          *)
(*                                                                         *)
(* React is modelled at the granularity the hooks API guarantees: a state  *)
(* setter only queues a value (the variables scrolled, fieldValues,        *)
(* isValid, isSubmitting, auditTrail, isReady hold the latest queued       *)
(* value); HookRender commits the queued values into `rendered`, the       *)
(* snapshot every callback closure of that render reads; HookRunEffects    *)
(* runs the passive effects whose dependencies changed in that commit.     *)
(* Refs (auditTrailRef, superdocRef, startTimeRef) are read and written    *)
(* immediately.  The timestamp addAuditEvent puts on an event is left out  *)
(* of the event records; the clock `now` feeds the payload's timestamp and *)
(* duration.                                                               *)
(***************************************************************************)
EXTENDS Integers, Sequences, FiniteSets, TLC

\* ------------------------------------------------------------------ bounds
\* longest audit trail explored
MaxTrail == 3
\* last value of the clock
MaxTime == 1
\* host submit handlers awaited at once
MaxInFlight == 2
\* handlers React lets run on a stale closure before it flushes
MaxStale == 1
\* arrays the recorder may allocate in one behaviour
MaxArrays == 5

\* ------------------------------------------------------- program constants
\* scrollPercentage >= 0.95, as a percentage
ScrollThresholdPct == 95

\* ------------------------------------------------------------------ values
\* A JavaScript value: t is the typeof tag ("undefined", "null", "string",
\* "number", "boolean"); s the characters of a string; n the number, or 1/0
\* for true/false.
Undefined == [t |-> "undefined", s |-> <<>>, n |-> 0]
Null == [t |-> "null", s |-> <<>>, n |-> 0]
Str(chars) == [t |-> "string", s |-> chars, n |-> 0]
Num(k) == [t |-> "number", s |-> <<>>, n |-> k]
Bool(b) == [t |-> "boolean", s |-> <<>>, n |-> IF b THEN 1 ELSE 0]

\* White space as String.prototype.trim sees it.
IsSpace(c) == c \in {" ", "\t", "\n"}

RECURSIVE TrimStart(_)
TrimStart(chars) ==
  IF chars # <<>> /\ IsSpace(Head(chars)) THEN TrimStart(Tail(chars)) ELSE chars

RECURSIVE TrimEnd(_)
TrimEnd(chars) ==
  IF chars # <<>> /\ IsSpace(chars[Len(chars)])
  THEN TrimEnd(SubSeq(chars, 1, Len(chars) - 1))
  ELSE chars

Trim(chars) == TrimEnd(TrimStart(chars))

\* JavaScript ToBoolean.
Truthy(v) ==
  CASE v.t = "undefined" -> FALSE
    [] v.t = "null" -> FALSE
    [] v.t = "string" -> v.s # <<>>
    [] v.t = "number" -> v.n # 0
    [] v.t = "boolean" -> v.n = 1

\* a ?? b
Coalesce(a, b) == IF a.t \in {"undefined", "null"} THEN b ELSE a

Digits == <<"0", "1", "2", "3", "4", "5", "6", "7", "8", "9">>

\* String(v), for the values the model uses (numbers 0..9).
JsString(v) ==
  CASE v.t = "undefined" -> <<"undefined">>
    [] v.t = "null" -> <<"null">>
    [] v.t = "string" -> v.s
    [] v.t = "number" -> <<Digits[v.n + 1]>>
    [] v.t = "boolean" -> IF v.n = 1 THEN <<"true">> ELSE <<"false">>

\* --------------------------------------------------------------- variables
VARIABLES
  variant,        \* "hook" | "class": a session of that controller;
                  \* "pure": a function applied on its own;
                  \* "recorder": the audit trail arrays of the component
  now,            \* Date.now(), in seconds
  container,      \* the scroll container: scrollTop, scrollHeight, clientHeight
  engine,         \* the document engine: "none", "importing", "loading",
                  \* "ready" (it has an active editor), "failed"
  doc,            \* the engine's document: the content of each tag
  scrollListener, \* whether handleScroll is attached to the container
  inFlight,       \* host submit handler calls not yet settled
  observed,       \* what the host observers have been told so far
  lastOp,         \* the operation of the last step, its result and the
                  \* observers it notified
  props,          \* hook: the component's props
  scrolled,       \* hook: useState, latest queued value
  fieldValues,    \* hook: useState, latest queued value
  isValid,        \* hook: useState, latest queued value
  isSubmitting,   \* hook: useState, latest queued value
  auditTrail,     \* hook: useState, latest queued value
  isReady,        \* hook: useState, latest queued value
  dirty,          \* hook: object-valued states set since the last render
  rendered,       \* hook: the state snapshot of the last render
  effectsPending, \* hook: passive effects of the last commit not yet run
  auditTrailRef,  \* hook: useRef
  superdocRef,    \* hook: useRef
  startTimeRef,   \* hook: useRef
  stale,          \* hook: handlers run since React last had nothing to flush
  config,         \* class: this.config
  superdoc,       \* class: this.superdoc
  state,          \* class: this.state
  dom,            \* class: the host's signature input and consent checkboxes
  tracking,       \* class: the listeners setupTracking attached
  heap            \* recorder: the audit trail arrays as objects, and who
                  \* holds which

hookVars ==
  <<props, scrolled, fieldValues, isValid, isSubmitting, auditTrail, isReady,
    dirty, rendered, effectsPending, auditTrailRef, superdocRef, startTimeRef,
    stale>>

classVars == <<config, superdoc, state, dom, tracking>>

vars ==
  <<variant, now, container, engine, doc, scrollListener, inFlight, observed,
    lastOp, hookVars, classVars, heap>>

\* ------------------------------------------------------------ the document
\* The tagged placeholders of the document, in the engine's order.  An id of
\* "" is a tag without id.
EngineTags ==
  << [id |-> "signature", alias |-> "signature", label |-> "Signature",
      textContent |-> <<>>],
     [id |-> "fullName", alias |-> "fullName", label |-> "Name",
      textContent |-> <<>>],
     [id |-> "c1", alias |-> "company", label |-> "Company",
      textContent |-> <<"T">>],
     [id |-> "c2", alias |-> "company", label |-> "Company",
      textContent |-> <<"T">>],
     [id |-> "", alias |-> "note", label |-> "Note",
      textContent |-> <<"N">>] >>

TextPayload(chars) == [text |-> chars]
ImagePayload(src) ==
  [json |-> [type |-> "image", attrs |-> [src |-> src, alt |-> "Signature"]]]

InitialDoc == [i \in 1..Len(EngineTags) |-> TextPayload(EngineTags[i].textContent)]

\* editor.commands.updateStructuredContentById(id, payload)
UpdateById(d, id, payload) ==
  [i \in 1..Len(EngineTags) |-> IF EngineTags[i].id = id THEN payload ELSE d[i]]

\* editor.commands.updateStructuredContentByAlias(alias, payload)
UpdateByAlias(d, alias, payload) ==
  [i \in 1..Len(EngineTags) |-> IF EngineTags[i].alias = alias THEN payload ELSE d[i]]

\* ------------------------------------------------------------ configuration
\* fields.signer of the hook; validation.required comes from props.required.
SignerFields ==
  << [id |-> "signature", type |-> "signature", value |-> Undefined] >>

\* fields.document of the hook.
DocumentFields == << [id |-> "c1", value |-> Str(<<"A">>)] >>

SignerIdSet == {SignerFields[i].id : i \in 1..Len(SignerFields)}

NoFields == [id \in SignerIdSet |-> Undefined]

\* Values a signer component hands to onChange; an input reports a change
\* only when the value differs from the one it shows.
EditValues == {Str(<<"J">>), Str(<<>>)}

\* Scroll container geometries: content that fits the viewport, and content
\* twenty units taller than it.
Geometries ==
  { [scrollHeight |-> 10, clientHeight |-> 10],
    [scrollHeight |-> 30, clientHeight |-> 10] }

\* Positions the signer scrolls to.
ScrollTops == {0, 19, 20}

\* The props a hook session is mounted with: scroll required or not, the
\* signature field required or not, and one disabled session.
HookConfigs ==
  { p \in [scrollRequired : BOOLEAN, isDisabled : BOOLEAN,
           required : {{}, {"signature"}}] :
      p.isDisabled => (~p.scrollRequired /\ p.required = {}) }

\* ------------------------------------------------------------------ scroll
ScrollRange(c) == c.scrollHeight - c.clientHeight

\* scrollTop / (scrollHeight - clientHeight) >= 0.95.  A zero range makes the
\* quotient NaN (0 / 0), and every comparison with NaN is false.
ReachedThreshold(c) ==
  /\ ScrollRange(c) > 0
  /\ c.scrollTop * 100 >= ScrollThresholdPct * ScrollRange(c)

\* The model's stand-in for NaN where a number is expected.
NaN == 0 - 1

\* Math.round(scrollPercentage * 100)
ScrollPercent(c) ==
  IF ScrollRange(c) = 0
  THEN NaN
  ELSE (200 * c.scrollTop + ScrollRange(c)) \div (2 * ScrollRange(c))

\* The condition under which the hook's handleScroll marks the document read.
HookScrollHit(c) == ReachedThreshold(c) \/ c.scrollHeight <= c.clientHeight

\* ------------------------------------------------------------- audit trail
ReadyEvent == [type |-> "ready"]
SubmitEvent == [type |-> "submit"]
ScrollEvent(c) == [type |-> "scroll", data |-> [percent |-> ScrollPercent(c)]]
FieldChangeEvent(id, v, prev) ==
  [type |-> "field_change",
   data |-> [fieldId |-> id, value |-> v, previousValue |-> prev]]

\* addAuditEvent: returns the trail in auditTrailRef extended by the event;
\* the caller stores the result in auditTrailRef and queues it with
\* setAuditTrail.
AddAuditEvent(trail, event) == Append(trail, event)

CountType(trail, type) ==
  Cardinality({i \in 1..Len(trail) : trail[i].type = type})

\* ---------------------------------------------------------------- validity
\* The callback checkIsValid passes to every(): the verdict on one signer
\* field.
FieldSatisfied(required, value) ==
  IF ~required
  THEN TRUE
  ELSE Truthy(value) /\ (value.t # "string" \/ Trim(value.s) # <<>>)

\* A faulty checkIsValid that leaves the scroll requirement out of its
\* verdict (fault injection for C13).
ValidIgnoringScroll(p, scr, values) ==
  \A id \in SignerIdSet : FieldSatisfied(id \in p.required, values[id])

\* checkIsValid of the hook, over the state of the render it closes over.
checkIsValid(p, scr, values) ==
  IF p.scrollRequired /\ ~scr
  THEN FALSE
  ELSE \A id \in SignerIdSet : FieldSatisfied(id \in p.required, values[id])

\* if (!isValid || isDisabled || isSubmitting) return;
SubmitGuard(valid, disabled, submitting) ==
  ~(~valid \/ disabled \/ submitting)

\* ----------------------------------------------------------------- payload
SignerFieldValues(values) ==
  [i \in 1..Len(SignerFields) |->
     [id |-> SignerFields[i].id,
      value |-> Coalesce(values[SignerFields[i].id], Null)]]

SubmitData(trail, values, valid, t, start) ==
  [timestamp |-> t,
   duration |-> t - start,
   auditTrail |-> trail,
   documentFields |-> DocumentFields,
   signerFields |-> SignerFieldValues(values),
   isFullyCompleted |-> valid]

\* --------------------------------------------------------------- observers
NoNotice == [none |-> TRUE]

\* The recorder's heap, in a behaviour that does not follow the arrays.
NoHeap == NoNotice

\* The first verdict delivered to onStateChange / onChange once the engine's
\* ready notification has been handled is remembered.
NoteValidity(obs, valid, afterReady) ==
  [obs EXCEPT
     !.firstValidAfterReady =
        IF afterReady /\ @ = "none"
        THEN (IF valid THEN "true" ELSE "false")
        ELSE @]

InitObserved ==
  [firstValidAfterReady |-> "none",
   onFieldsDiscovered |-> NoNotice,
   onReady |-> 0,
   onError |-> 0,
   engineDestroyed |-> 0,
   destroyDuringInit |-> FALSE]

RemoveAt(seq, i) == SubSeq(seq, 1, i - 1) \o SubSeq(seq, i + 1, Len(seq))

MarkReset(calls) ==
  [i \in 1..Len(calls) |-> [calls[i] EXCEPT !.resetSince = TRUE]]

\* -------------------------------------------------------------------- hook
\* textToImageDataUrl: the PNG data URL of the text drawn on a canvas.
textToImageDataUrl(chars) == <<"data:image/", "png;base64,">> \o chars

\* value.startsWith("data:image/")
StartsWithDataImage(chars) == chars # <<>> /\ chars[1] = "data:image/"

SignerFieldOf(id) ==
  IF \E i \in 1..Len(SignerFields) : SignerFields[i].id = id
  THEN SignerFields[CHOOSE i \in 1..Len(SignerFields) : SignerFields[i].id = id]
  ELSE [id |-> "", type |-> "none", value |-> Undefined]

\* The payload updateFieldInDocument builds for a field.
UpdatePayload(id, value) ==
  IF SignerFieldOf(id).type = "signature" /\ Truthy(value)
  THEN ImagePayload(IF value.t = "string" /\ StartsWithDataImage(value.s)
                    THEN value.s
                    ELSE textToImageDataUrl(JsString(value)))
  ELSE TextPayload(JsString(Coalesce(value, Str(<<>>))))

\* updateFieldInDocument({id, value}): the document after the call; nothing

\* A faulty updateFieldInDocument that does not test for an active editor
\* (fault injection for C25).
PushWithoutEditor(d, hasEditor, id, value) ==
  IF id = "" THEN d ELSE UpdateById(d, id, UpdatePayload(id, value))

\* happens without an active editor or without an id.
updateFieldInDocument(d, hasEditor, id, value) ==
  IF ~hasEditor
  THEN d
  ELSE IF id = "" THEN d ELSE UpdateById(d, id, UpdatePayload(id, value))

\* updateFieldInDocument of the alias-addressed component: every value is
\* written as text, by id or else by alias.
updateFieldInDocumentByAlias(d, hasEditor, id, alias, value) ==
  LET textValue == JsString(Coalesce(value, Str(<<>>)))
  IN IF ~hasEditor
     THEN d
     ELSE IF id # ""
          THEN UpdateById(d, id, TextPayload(textValue))
          ELSE IF alias # ""
               THEN UpdateByAlias(d, alias, TextPayload(textValue))
               ELSE d

\* configValues of discoverAndApplyFields, as a lookup by id.
HookConfigValue(id) ==
  LET signer == {i \in 1..Len(SignerFields) :
                   SignerFields[i].id = id /\ SignerFields[i].value # Undefined}
      document == {i \in 1..Len(DocumentFields) :
                     DocumentFields[i].id = id /\ DocumentFields[i].id # ""}
  IN IF signer # {}
     THEN SignerFields[CHOOSE i \in signer : \A j \in signer : j <= i].value
     ELSE IF document # {}
          THEN DocumentFields[CHOOSE i \in document : \A j \in document : j <= i].value
          ELSE Undefined

\* The list discoverAndApplyFields reports: one entry per tag, tags without
\* id filtered out.
HookDiscovered ==
  LET all == [i \in 1..Len(EngineTags) |->
                [id |-> EngineTags[i].id,
                 label |-> EngineTags[i].label,
                 value |-> Coalesce(HookConfigValue(EngineTags[i].id),
                                    Str(EngineTags[i].textContent))]]
      HasId(f) == f.id # ""
  IN SelectSeq(all, HasId)

\* allFields.filter(value !== undefined).forEach(updateFieldInDocument)
RECURSIVE ApplyFields(_, _, _)
ApplyFields(d, hasEditor, fields) ==
  IF fields = <<>>
  THEN d
  ELSE ApplyFields(
         IF Head(fields).value # Undefined
         THEN updateFieldInDocument(d, hasEditor, Head(fields).id, Head(fields).value)
         ELSE d,
         hasEditor,
         Tail(fields))

HookState ==
  [scrolled |-> scrolled,
   fieldValues |-> fieldValues,
   isValid |-> isValid,
   isSubmitting |-> isSubmitting,
   auditTrail |-> auditTrail,
   isReady |-> isReady]

\* What getState() of the imperative handle returns.
getState ==
  [scrolled |-> rendered.scrolled,
   fields |-> rendered.fieldValues,
   isValid |-> rendered.isValid,
   isSubmitting |-> rendered.isSubmitting]

\* The class variables, in a behaviour of the hook.
ClassUnused ==
  /\ config = NoNotice
  /\ superdoc = "null"
  /\ state = NoNotice
  /\ dom = NoNotice
  /\ tracking = NoNotice

InitHook ==
  /\ variant = "hook"
  /\ now = 0
  /\ heap = NoHeap
  /\ props \in HookConfigs
  /\ \E g \in Geometries :
       /\ ScrollRange(g) = 0 => props.scrollRequired
       /\ container = [scrollTop |-> 0] @@ g
  /\ engine = "none"
  /\ doc = InitialDoc
  /\ scrollListener = FALSE
  /\ inFlight = <<>>
  /\ observed = InitObserved
  /\ lastOp = [op |-> "mount"]
  /\ scrolled = ~props.scrollRequired
  /\ fieldValues = NoFields
  /\ isValid = FALSE
  /\ isSubmitting = FALSE
  /\ auditTrail = <<>>
  /\ isReady = FALSE
  /\ dirty = {}
  /\ rendered = HookState
  /\ effectsPending = {"auditSync", "init", "scroll", "validity"}
  /\ auditTrailRef = <<>>
  /\ superdocRef = "null"
  /\ startTimeRef = 0
  /\ stale = 0
  /\ ClassUnused

\* React has nothing to flush: no queued state and no effect waiting.
Quiet == dirty = {} /\ HookState = rendered /\ effectsPending = {}

\* A handler may run while React still has work to flush (it then reads the
\* closure of the last render, not the queued state), but React flushes
\* before more than MaxStale handlers have done so.
MayRun == Quiet \/ stale < MaxStale

Ran == IF Quiet THEN 0 ELSE stale + 1

\* React commits the queued state: every closure of the new render reads
\* this snapshot, and the effects whose dependencies changed are scheduled.
HookRender ==
  /\ variant = "hook"
  /\ effectsPending = {}
  /\ dirty # {} \/ HookState # rendered
  /\ rendered' = HookState
  /\ effectsPending' =
        (IF "auditTrail" \in dirty THEN {"auditSync"} ELSE {})
          \cup (IF isReady # rendered.isReady THEN {"scroll"} ELSE {})
          \cup (IF \/ scrolled # rendered.scrolled
                   \/ "fieldValues" \in dirty
                   \/ isSubmitting # rendered.isSubmitting
                THEN {"validity"}
                ELSE {})
  /\ dirty' = {}
  /\ stale' = IF effectsPending' = {} THEN 0 ELSE stale
  /\ lastOp' = [op |-> "render"]
  /\ UNCHANGED <<variant, heap, now, container, engine, doc, scrollListener,
                 inFlight, observed, classVars>>
  /\ UNCHANGED <<props, scrolled, fieldValues, isValid, isSubmitting,
                 auditTrail, isReady, auditTrailRef, superdocRef, startTimeRef>>

\* The passive effects of the last commit, in declaration order: the
\* auditTrailRef sync, the engine initialisation (mount only), the scroll
\* listener with its initial handleScroll(), and the validity effect.
HookRunEffects ==
  /\ variant = "hook"
  /\ effectsPending # {}
  /\ LET ref1 == IF "auditSync" \in effectsPending
                 THEN rendered.auditTrail
                 ELSE auditTrailRef
         attach == /\ "scroll" \in effectsPending
                   /\ props.scrollRequired
                   /\ rendered.isReady
         hit == attach /\ HookScrollHit(container)
         ref2 == IF hit THEN AddAuditEvent(ref1, ScrollEvent(container)) ELSE ref1
         valid == checkIsValid(props, rendered.scrolled, rendered.fieldValues)
         notice == [scrolled |-> rendered.scrolled,
                    fields |-> rendered.fieldValues,
                    isValid |-> valid,
                    isSubmitting |-> rendered.isSubmitting]
     IN /\ hit => Len(ref1) < MaxTrail
        /\ auditTrailRef' = ref2
        /\ auditTrail' = IF hit THEN ref2 ELSE auditTrail
        /\ dirty' = IF hit THEN dirty \cup {"auditTrail"} ELSE dirty
        /\ scrolled' = IF hit THEN TRUE ELSE scrolled
        /\ scrollListener' =
              IF "scroll" \in effectsPending THEN attach ELSE scrollListener
        /\ engine' = IF "init" \in effectsPending THEN "importing" ELSE engine
        /\ isValid' = IF "validity" \in effectsPending THEN valid ELSE isValid
        /\ observed' =
              IF "validity" \in effectsPending
              THEN NoteValidity(observed, valid, engine = "ready")
              ELSE observed
        /\ lastOp' =
              [op |-> "effects",
               ran |-> effectsPending,
               onStateChange |->
                 IF "validity" \in effectsPending THEN notice ELSE NoNotice]
  /\ effectsPending' = {}
  /\ UNCHANGED <<variant, heap, now, container, doc, inFlight, classVars>>
  /\ UNCHANGED <<props, fieldValues, isSubmitting, isReady, rendered,
                 superdocRef, startTimeRef>>
  /\ stale' = IF dirty' = {} /\ HookState' = rendered THEN 0 ELSE stale

\* initSuperDoc after `await import("superdoc")`: the instance is built and
\* stored in superdocRef.
HookInitSuperDoc ==
  /\ variant = "hook"
  /\ MayRun
  /\ stale' = Ran
  /\ engine = "importing"
  /\ engine' = "loading"
  /\ superdocRef' = "instance"
  /\ lastOp' = [op |-> "initSuperDoc"]
  /\ UNCHANGED <<variant, heap, now, container, doc, scrollListener, inFlight,
                 observed, classVars>>
  /\ UNCHANGED <<props, scrolled, fieldValues, isValid, isSubmitting,
                 auditTrail, isReady, dirty, rendered, effectsPending,
                 auditTrailRef, startTimeRef>>

\* The engine's onReady callback: discoverAndApplyFields on the active
\* editor, the ready audit event, setIsReady(true).
HookOnReady ==
  /\ variant = "hook"
  /\ MayRun
  /\ stale' = Ran
  /\ engine = "loading"
  /\ Len(auditTrailRef) < MaxTrail
  /\ engine' = "ready"
  /\ LET found == HookDiscovered
     IN /\ doc' = IF Len(found) > 0
                  THEN ApplyFields(doc, superdocRef = "instance",
                                   DocumentFields \o SignerFields)
                  ELSE doc
        /\ observed' =
              IF Len(found) > 0
              THEN [observed EXCEPT !.onFieldsDiscovered = found]
              ELSE observed
  /\ auditTrailRef' = AddAuditEvent(auditTrailRef, ReadyEvent)
  /\ auditTrail' = auditTrailRef'
  /\ dirty' = dirty \cup {"auditTrail"}
  /\ isReady' = TRUE
  /\ lastOp' = [op |-> "ready",
                atDiscovered |->
                  IF Len(HookDiscovered) > 0
                  THEN [doc |-> doc, auditTrail |-> auditTrailRef,
                        listening |-> scrollListener]
                  ELSE NoNotice]
  /\ UNCHANGED <<variant, heap, now, container, scrollListener, inFlight, classVars>>
  /\ UNCHANGED <<props, scrolled, fieldValues, isValid, isSubmitting, rendered,
                 effectsPending, superdocRef, startTimeRef>>

\* A scroll event of the container: the signer moves it to position top, and
\* handleScroll runs if the scroll effect has attached it.
HookScrollEvent ==
  /\ variant = "hook"
  /\ MayRun
  /\ stale' = Ran
  /\ \E top \in ScrollTops :
       /\ top # container.scrollTop
       /\ top <= ScrollRange(container)
       /\ container' = [container EXCEPT !.scrollTop = top]
       /\ LET hit == scrollListener /\ HookScrollHit(container')
          IN /\ hit => Len(auditTrailRef) < MaxTrail
             /\ scrolled' = IF hit THEN TRUE ELSE scrolled
             /\ auditTrailRef' =
                   IF hit
                   THEN AddAuditEvent(auditTrailRef, ScrollEvent(container'))
                   ELSE auditTrailRef
             /\ auditTrail' = IF hit THEN auditTrailRef' ELSE auditTrail
             /\ dirty' = IF hit THEN dirty \cup {"auditTrail"} ELSE dirty
             /\ lastOp' = [op |-> "scroll", handled |-> scrollListener]
  /\ UNCHANGED <<variant, heap, now, engine, doc, scrollListener, inFlight,
                 observed, classVars>>
  /\ UNCHANGED <<props, fieldValues, isValid, isSubmitting, isReady, rendered,
                 effectsPending, superdocRef, startTimeRef>>

\* A faulty handleFieldChange that takes previousValue from the field map of
\* the last render (fault injection for C33).
PreviousFromClosure ==
  /\ variant = "hook"
  /\ MayRun
  /\ stale' = Ran
  /\ Len(auditTrailRef) < MaxTrail
  /\ \E fieldId \in SignerIdSet, value \in EditValues :
       /\ value # Coalesce(fieldValues[fieldId], Str(<<>>))
       /\ LET previousValue == rendered.fieldValues[fieldId]
          IN /\ fieldValues' = [fieldValues EXCEPT ![fieldId] = value]
             /\ doc' = updateFieldInDocument(
                          doc, superdocRef = "instance" /\ engine = "ready",
                          fieldId, value)
             /\ auditTrailRef' =
                   AddAuditEvent(auditTrailRef,
                                 FieldChangeEvent(fieldId, value, previousValue))
             /\ lastOp' =
                   [op |-> "fieldChange",
                    onFieldChange |->
                      [id |-> fieldId, value |-> value,
                       previousValue |-> previousValue]]
  /\ auditTrail' = auditTrailRef'
  /\ dirty' = dirty \cup {"fieldValues", "auditTrail"}
  /\ UNCHANGED <<variant, heap, now, container, engine, scrollListener, inFlight,
                 observed, classVars>>
  /\ UNCHANGED <<props, scrolled, isValid, isSubmitting, isReady, rendered,
                 effectsPending, superdocRef, startTimeRef>>

\* handleFieldChange(fieldId, value): the updater passed to setFieldValues
\* runs against the latest queued map.
HookFieldChange ==
  /\ variant = "hook"
  /\ MayRun
  /\ stale' = Ran
  /\ Len(auditTrailRef) < MaxTrail
  /\ \E fieldId \in SignerIdSet, value \in EditValues :
       /\ value # Coalesce(fieldValues[fieldId], Str(<<>>))
       /\ LET previousValue == fieldValues[fieldId]
          IN /\ fieldValues' = [fieldValues EXCEPT ![fieldId] = value]
             /\ doc' = updateFieldInDocument(
                          doc, superdocRef = "instance" /\ engine = "ready",
                          fieldId, value)
             /\ auditTrailRef' =
                   AddAuditEvent(auditTrailRef,
                                 FieldChangeEvent(fieldId, value, previousValue))
             /\ lastOp' =
                   [op |-> "fieldChange",
                    onFieldChange |->
                      [id |-> fieldId, value |-> value,
                       previousValue |-> previousValue]]
  /\ auditTrail' = auditTrailRef'
  /\ dirty' = dirty \cup {"fieldValues", "auditTrail"}
  /\ UNCHANGED <<variant, heap, now, container, engine, scrollListener, inFlight,
                 observed, classVars>>
  /\ UNCHANGED <<props, scrolled, isValid, isSubmitting, isReady, rendered,
                 effectsPending, superdocRef, startTimeRef>>

\* A faulty handleSubmit that raises the submitting flag before it tests its
\* guard (fault injection for C3).
SubmitRejectedAfterFlag ==
  /\ isSubmitting' = TRUE
  /\ lastOp' = [op |-> "submit", result |-> "rejected", returned |-> "undefined"]
  /\ UNCHANGED <<variant, heap, now, container, engine, doc, scrollListener,
                 inFlight, observed, classVars>>
  /\ UNCHANGED <<props, scrolled, fieldValues, isValid, auditTrail, isReady,
                 dirty, rendered, effectsPending, auditTrailRef, superdocRef,
                 startTimeRef>>

\* handleSubmit returning at its guard.
HookSubmitRejected ==
  /\ lastOp' = [op |-> "submit", result |-> "rejected", returned |-> "undefined"]
  /\ UNCHANGED <<variant, heap, now, container, engine, doc, scrollListener,
                 inFlight, observed, classVars>>
  /\ UNCHANGED <<props, scrolled, fieldValues, isValid, isSubmitting,
                 auditTrail, isReady, dirty, rendered, effectsPending,
                 auditTrailRef, superdocRef, startTimeRef>>

\* handleSubmit past its guard, up to the await of the host's onSubmit.
HookSubmitAccepted ==
  /\ Len(auditTrailRef) + 2 <= MaxTrail
  /\ Len(inFlight) < MaxInFlight
  /\ LET first == AddAuditEvent(auditTrailRef, SubmitEvent)
         nextAuditTrail == AddAuditEvent(first, SubmitEvent)
         submitData == SubmitData(nextAuditTrail, rendered.fieldValues,
                                  rendered.isValid, now, startTimeRef)
     IN /\ isSubmitting' = TRUE
        /\ auditTrailRef' = nextAuditTrail
        /\ auditTrail' = nextAuditTrail
        /\ dirty' = dirty \cup {"auditTrail"}
        /\ inFlight' = Append(inFlight, [resetSince |-> FALSE])
        /\ lastOp' = [op |-> "submit", result |-> "accepted",
                      before |-> [isValid |-> rendered.isValid,
                                  isDisabled |-> props.isDisabled,
                                  inFlight |-> Len(inFlight)],
                      onSubmit |-> submitData]
  /\ UNCHANGED <<variant, heap, now, container, engine, doc, scrollListener,
                 observed, classVars>>
  /\ UNCHANGED <<props, scrolled, fieldValues, isValid, isReady, rendered,
                 effectsPending, superdocRef, startTimeRef>>

\* handleSubmit: the closure reads isValid, isSubmitting and fieldValues of
\* the render that created it.
HookSubmit ==
  /\ variant = "hook"
  /\ MayRun
  /\ stale' = Ran
  /\ IF SubmitGuard(rendered.isValid, props.isDisabled, rendered.isSubmitting)
     THEN HookSubmitAccepted
     ELSE HookSubmitRejected

\* A faulty handleSubmit that catches the handler's error (fault injection
\* for C5).
SettledSwallowed(outcome) == "undefined"

\* What the caller of handleSubmit gets when onSubmit has settled: there is
\* no catch, so a rejection passes through the finally block.
HookSettled(outcome) == IF outcome = "rejected" THEN "error" ELSE "undefined"

\* A faulty handleSubmit that clears the flag after the await instead of in a
\* finally block, so a rejection skips it (fault injection for C4).
SettleClearingOnSuccess ==
  /\ variant = "hook"
  /\ \E i \in 1..Len(inFlight), outcome \in {"resolved", "rejected"} :
       /\ inFlight' = RemoveAt(inFlight, i)
       /\ isSubmitting' = IF outcome = "resolved" THEN FALSE ELSE isSubmitting
       /\ lastOp' = [op |-> "settle",
                     handler |-> outcome,
                     caller |-> IF outcome = "rejected" THEN "error"
                                ELSE "undefined",
                     resetSince |-> inFlight[i].resetSince]
  /\ UNCHANGED <<variant, heap, now, container, engine, doc, scrollListener,
                 observed, classVars>>
  /\ UNCHANGED <<props, scrolled, fieldValues, isValid, auditTrail, isReady,
                 dirty, rendered, effectsPending, auditTrailRef, superdocRef,
                 startTimeRef, stale>>

\* The host's onSubmit promise settles; handleSubmit resumes in its finally
\* block and then resolves, or rejects with the handler's error.
HookSettle ==
  /\ variant = "hook"
  /\ \E i \in 1..Len(inFlight), outcome \in {"resolved", "rejected"} :
       /\ inFlight' = RemoveAt(inFlight, i)
       /\ isSubmitting' = FALSE
       /\ lastOp' = [op |-> "settle",
                     handler |-> outcome,
                     caller |-> HookSettled(outcome),
                     resetSince |-> inFlight[i].resetSince]
  /\ UNCHANGED <<variant, heap, now, container, engine, doc, scrollListener,
                 observed, classVars>>
  /\ UNCHANGED <<props, scrolled, fieldValues, isValid, auditTrail, isReady,
                 dirty, rendered, effectsPending, auditTrailRef, superdocRef,
                 startTimeRef, stale>>


\* The payload handleDownload hands to onDownload.
DownloadData(values) ==
  [fields |-> [document |-> DocumentFields,
               signer |-> SignerFieldValues(values)],
   fileName |-> "document.pdf"]

\* A faulty handleDownload that also returns when the session is not valid
\* (fault injection for C27).
DownloadGatedOnValidity ==
  /\ variant = "hook"
  /\ LET delivered == ~props.isDisabled /\ rendered.isValid
     IN lastOp' = [op |-> "download",
                   delivered |-> delivered,
                   onDownload |-> IF delivered
                                  THEN DownloadData(rendered.fieldValues)
                                  ELSE NoNotice]
  /\ UNCHANGED <<variant, heap, now, container, engine, doc, scrollListener,
                 inFlight, observed, hookVars, classVars>>

\* handleDownload: returns when the session is disabled, otherwise hands the
\* field snapshot of the render it closes over to onDownload.
HookDownload ==
  /\ variant = "hook"
  /\ LET delivered == ~props.isDisabled
     IN lastOp' = [op |-> "download",
                   delivered |-> delivered,
                   onDownload |-> IF delivered
                                  THEN DownloadData(rendered.fieldValues)
                                  ELSE NoNotice]
  /\ UNCHANGED <<variant, heap, now, container, engine, doc, scrollListener,
                 inFlight, observed, hookVars, classVars>>

\* A faulty reset that records itself in the audit trail instead of clearing
\* it (fault injection for C18).
ResetRecordingItself ==
  /\ variant = "hook"
  /\ MayRun
  /\ Len(auditTrailRef) < MaxTrail
  /\ stale' = Ran
  /\ scrolled' = ~props.scrollRequired
  /\ fieldValues' = NoFields
  /\ isValid' = FALSE
  /\ auditTrailRef' = AddAuditEvent(auditTrailRef, [type |-> "reset"])
  /\ auditTrail' = auditTrailRef'
  /\ dirty' = dirty \cup {"fieldValues", "auditTrail"}
  /\ inFlight' = MarkReset(inFlight)
  /\ lastOp' = [op |-> "reset", again |-> lastOp.op = "reset"]
  /\ UNCHANGED <<variant, heap, now, container, engine, doc, scrollListener,
                 observed, classVars>>
  /\ UNCHANGED <<props, isSubmitting, isReady, rendered, effectsPending,
                 superdocRef, startTimeRef>>

\* reset() of the imperative handle.
HookReset ==
  /\ variant = "hook"
  /\ MayRun
  /\ stale' = Ran
  /\ scrolled' = ~props.scrollRequired
  /\ fieldValues' = NoFields
  /\ isValid' = FALSE
  /\ auditTrailRef' = <<>>
  /\ auditTrail' = <<>>
  /\ dirty' = dirty \cup {"fieldValues", "auditTrail"}
  /\ inFlight' = MarkReset(inFlight)
  /\ lastOp' = [op |-> "reset", again |-> lastOp.op = "reset"]
  /\ UNCHANGED <<variant, heap, now, container, engine, doc, scrollListener,
                 observed, classVars>>
  /\ UNCHANGED <<props, isSubmitting, isReady, rendered, effectsPending,
                 superdocRef, startTimeRef>>

\* ------------------------------------------------------------------- class
\* config.fields of the class: one value declared by alias.
ConfigFields == << [id |-> "", alias |-> "company", value |-> Str(<<"Acme">>)] >>

\* Names of the consent checkboxes the host renders.
CheckboxNames == {"terms", "privacy"}

\* Texts the signer leaves in the signature input.
SignatureTexts == {<<>>, <<" ">>, <<"J">>}

\* The configurations a class session is constructed with.  mode says how
\* the engine is obtained: "supplied" (config.superdoc), "create"
\* (config.document and config.container) or "none" (neither).  The host
\* names a signature element and consent checkboxes exactly when it
\* requires them.  Sessions without an engine of their own ask for all the
\* requirements or for none.
ClassConfigs ==
  { c \in [mode : {"supplied", "create", "none"},
           scroll : BOOLEAN,
           signature : BOOLEAN,
           consents : {<<>>, <<"terms">>},
           elements : [signature : BOOLEAN, consents : BOOLEAN],
           fields : {ConfigFields}] :
      /\ c.elements.signature = c.signature
      /\ c.elements.consents = (c.consents # <<>>)
      /\ c.mode \in {"none", "supplied"} =>
           (c.scroll = c.signature /\ c.signature = (c.consents # <<>>)) }

\* A faulty key that files declared values under their id only (fault
\* injection for C16).
KeyByIdOnly(f) == f.id

\* const key = f.id || f.alias
FieldKey(f) == IF f.id # "" THEN f.id ELSE f.alias

\* configValues.get(key) of discoverFields.
ClassConfigValue(fields, key) ==
  LET hits == {i \in 1..Len(fields) :
                 FieldKey(fields[i]) # "" /\ FieldKey(fields[i]) = key}
  IN IF hits = {}
     THEN Undefined
     ELSE fields[CHOOSE i \in hits : \A j \in hits : j <= i].value

\* The FieldInfo list discoverFields builds, one entry per tag.
ClassDiscovered(cfg) ==
  [i \in 1..Len(EngineTags) |->
     [id |-> EngineTags[i].id,
      label |-> EngineTags[i].alias,
      value |->
        Coalesce(
          Coalesce(ClassConfigValue(cfg.fields, EngineTags[i].id),
                   ClassConfigValue(cfg.fields, EngineTags[i].alias)),
          Str(EngineTags[i].textContent))]]

\* Map.prototype.set on this.state.fields, a map kept in insertion order.
MapSet(fields, f) ==
  IF \E i \in 1..Len(fields) : fields[i].id = f.id
  THEN [i \in 1..Len(fields) |-> IF fields[i].id = f.id THEN f ELSE fields[i]]
  ELSE Append(fields, f)

RECURSIVE MapSetAll(_, _)
MapSetAll(fields, new) ==
  IF new = <<>> THEN fields ELSE MapSetAll(MapSet(fields, Head(new)), Tail(new))


\* A faulty iteration that files a value under an id it has no field for
\* (fault injection for C24).
UpsertOneField(fields, u) ==
  IF u.id # ""
  THEN IF \E i \in 1..Len(fields) : fields[i].id = u.id
       THEN [i \in 1..Len(fields) |->
               IF fields[i].id = u.id THEN [fields[i] EXCEPT !.value = u.value]
               ELSE fields[i]]
       ELSE Append(fields, [id |-> u.id, label |-> u.alias, value |-> u.value])
  ELSE fields

\* One iteration of the forEach of updateFields, on the local field map.
UpdateOneField(fields, u) ==
  IF u.id # ""
  THEN [i \in 1..Len(fields) |->
          IF fields[i].id = u.id THEN [fields[i] EXCEPT !.value = u.value]
          ELSE fields[i]]
  ELSE IF u.alias # ""
       THEN LET hits == {i \in 1..Len(fields) : fields[i].label = u.alias}
            IN IF hits = {}
               THEN fields
               ELSE LET first == CHOOSE i \in hits : \A j \in hits : i <= j
                    IN [fields EXCEPT ![first].value = u.value]
       ELSE fields

\* One iteration of the forEach of updateFields, on the document.
UpdateOneTag(d, u) ==
  IF u.id # ""
  THEN UpdateById(d, u.id, TextPayload(JsString(u.value)))
  ELSE IF u.alias # ""
       THEN UpdateByAlias(d, u.alias, TextPayload(JsString(u.value)))
       ELSE d

\* updateFields(updates): the field map and the document after the call;
\* nothing happens without an active editor.
RECURSIVE updateFields(_, _, _, _)
updateFields(fields, d, hasEditor, updates) ==
  IF ~hasEditor \/ updates = <<>>
  THEN [fields |-> fields, doc |-> d]
  ELSE updateFields(UpdateOneField(fields, Head(updates)),
                    UpdateOneTag(d, Head(updates)),
                    hasEditor,
                    Tail(updates))

SeqToSet(seq) == {seq[i] : i \in 1..Len(seq)}

\* A faulty getStatus whose verdict leaves the required consents out (fault
\* injection for C11).
StatusIgnoringConsents(cfg, st) ==
  [scroll |-> ~cfg.scroll \/ st.scrolled,
   signature |-> ~cfg.signature \/ st.signed,
   consents |-> st.consents,
   isValid |-> (~cfg.scroll \/ st.scrolled) /\ (~cfg.signature \/ st.signed)]

\* getStatus()
getStatus(cfg, st) ==
  LET scroll == ~cfg.scroll \/ st.scrolled
      signature == ~cfg.signature \/ st.signed
      allConsents == \A id \in SeqToSet(cfg.consents) : id \in st.consents
  IN [scroll |-> scroll,
      signature |-> signature,
      consents |-> st.consents,
      isValid |-> scroll /\ signature /\ allConsents]

\* The data accept() hands to onAccept.
AuditData(st, t) ==
  [timestamp |-> t,
   duration |-> t - st.startTime,
   fields |-> [i \in 1..Len(st.fields) |->
                 [id |-> st.fields[i].id,
                  alias |-> st.fields[i].label,
                  value |-> st.fields[i].value]],
   scrolled |-> st.scrolled,
   signed |-> st.signed,
   consents |-> st.consents,
   signatureImage |-> Undefined]

\* hasSignatureValue for an input element: !!value?.trim()
hasSignatureValue(chars) == Trim(chars) # <<>>

\* The hook variables, in a behaviour of the class.
HookUnused ==
  /\ props = NoNotice
  /\ scrolled = FALSE
  /\ fieldValues = NoNotice
  /\ isValid = FALSE
  /\ isSubmitting = FALSE
  /\ auditTrail = <<>>
  /\ isReady = FALSE
  /\ dirty = {}
  /\ rendered = NoNotice
  /\ effectsPending = {}
  /\ auditTrailRef = <<>>
  /\ superdocRef = "null"
  /\ startTimeRef = 0
  /\ stale = 0

\* The object with its field initialisers, as the constructor body starts.
InitClass ==
  /\ variant = "class"
  /\ now = 0
  /\ heap = NoHeap
  /\ config \in ClassConfigs
  /\ \E g \in Geometries :
       /\ ScrollRange(g) = 0 => config.scroll
       /\ container = [scrollTop |-> 0] @@ g
  /\ engine = "none"
  /\ doc = InitialDoc
  /\ scrollListener = FALSE
  /\ inFlight = <<>>
  /\ observed = InitObserved
  /\ lastOp = [op |-> "new"]
  /\ superdoc = "null"
  /\ state = [scrolled |-> FALSE, signed |-> FALSE, consents |-> {},
              startTime |-> 0, fields |-> <<>>]
  /\ dom \in [signature : {<<>>}, checked : {{}, {"privacy"}}]
  /\ dom.checked # {} => config.elements.consents
  /\ tracking = [signature |-> FALSE, consents |-> {}]
  /\ HookUnused

\* onSuperDocReady(), run with this.superdoc = sd on an engine that has an
\* active editor iff hasEditor: discoverFields, updateFields(config.fields),
\* setupTracking (with the initial handleScroll of trackScroll and the
\* initial check of trackConsents), onReady, checkRequirements.
ClassReadyBody(sd, hasEditor) ==
  LET found == ClassDiscovered(config)
      seeded == IF hasEditor /\ Len(found) > 0
                THEN MapSetAll(state.fields, found)
                ELSE state.fields
      updated == updateFields(seeded, doc, hasEditor, config.fields)
      hit == config.scroll /\ ReachedThreshold(container)
      tracked == IF config.elements.consents THEN CheckboxNames ELSE {}
      st == [state EXCEPT
               !.fields = updated.fields,
               !.scrolled = IF hit THEN TRUE ELSE @,
               !.consents = @ \cup (tracked \cap dom.checked)]
      status == getStatus(config, st)
  IN /\ superdoc' = sd
     /\ state' = st
     /\ doc' = updated.doc
     /\ scrollListener' = (scrollListener \/ config.scroll)
     /\ tracking' =
          [signature |-> tracking.signature
                           \/ (config.signature /\ config.elements.signature),
           consents |-> tracking.consents \cup tracked]
     /\ observed' =
          NoteValidity(
            [observed EXCEPT
               !.onFieldsDiscovered =
                  IF hasEditor /\ Len(found) > 0 THEN found ELSE @,
               !.onReady = @ + 1],
            status.isValid, TRUE)
     /\ lastOp' = [op |-> "ready", onChange |-> status,
                   atDiscovered |->
                     IF hasEditor /\ Len(found) > 0
                     THEN [doc |-> doc, listening |-> scrollListener]
                     ELSE NoNotice]


\* A faulty init() that swallows the configuration error (fault injection
\* for C26).
InitSwallowingConfigError ==
  /\ variant = "class"
  /\ engine = "none"
  /\ CASE config.mode = "supplied" ->
            /\ engine' = "ready"
            /\ ClassReadyBody("instance", TRUE)
       [] config.mode = "create" ->
            /\ engine' = "importing"
            /\ lastOp' = [op |-> "init"]
            /\ UNCHANGED <<superdoc, state, doc, scrollListener, tracking,
                           observed>>
       [] config.mode = "none" ->
            /\ engine' = "failed"
            /\ lastOp' = [op |-> "init"]
            /\ UNCHANGED <<superdoc, state, doc, scrollListener, tracking,
                           observed>>
  /\ UNCHANGED <<variant, heap, now, container, inFlight, config, dom, hookVars>>

\* init(), called by the constructor, up to its first await.
ClassInit ==
  /\ variant = "class"
  /\ engine = "none"
  /\ CASE config.mode = "supplied" ->
            /\ engine' = "ready"
            /\ ClassReadyBody("instance", TRUE)
       [] config.mode = "create" ->
            /\ engine' = "importing"
            /\ lastOp' = [op |-> "init"]
            /\ UNCHANGED <<superdoc, state, doc, scrollListener, tracking,
                           observed>>
       [] config.mode = "none" ->
            /\ engine' = "failed"
            /\ observed' = [observed EXCEPT !.onError = @ + 1]
            /\ lastOp' = [op |-> "init"]
            /\ UNCHANGED <<superdoc, state, doc, scrollListener, tracking>>
  /\ UNCHANGED <<variant, heap, now, container, inFlight, config, dom, hookVars>>

\* initSuperDoc after `await import("superdoc")`: the instance is built and
\* stored in this.superdoc.
ClassInitSuperDoc ==
  /\ variant = "class"
  /\ engine = "importing"
  /\ engine' = "loading"
  /\ superdoc' = "instance"
  /\ lastOp' = [op |-> "initSuperDoc"]
  /\ UNCHANGED <<variant, heap, now, container, doc, scrollListener, inFlight,
                 observed, config, state, dom, tracking, hookVars>>

\* The engine's onReady callback of a controller-created instance.
ClassOnSuperDocReady ==
  /\ variant = "class"
  /\ engine = "loading"
  /\ engine' = "ready"
  /\ ClassReadyBody(superdoc, superdoc # "null")
  /\ UNCHANGED <<variant, heap, now, container, inFlight, config, dom, hookVars>>

\* checkRequirements(): the status handed to onChange.
ClassNotify(st) ==
  observed' = NoteValidity(observed, getStatus(config, st).isValid,
                           observed.onReady > 0)

\* A faulty handleScroll that stores the outcome of the comparison, whatever
\* it is (fault injection for C9).
ScrollEventTrackingPosition ==
  /\ variant = "class"
  /\ engine # "none"
  /\ \E top \in ScrollTops :
       /\ top <= ScrollRange(container)
       /\ top # container.scrollTop
       /\ container' = [container EXCEPT !.scrollTop = top]
       /\ state' = IF scrollListener
                   THEN [state EXCEPT !.scrolled = ReachedThreshold(container')]
                   ELSE state
       /\ observed' = IF scrollListener
                      THEN NoteValidity(observed,
                                        getStatus(config, state').isValid,
                                        observed.onReady > 0)
                      ELSE observed
       /\ lastOp' = [op |-> "scroll", handled |-> scrollListener]
  /\ UNCHANGED <<variant, heap, now, engine, doc, scrollListener, inFlight, config,
                 superdoc, dom, tracking, hookVars>>

\* A scroll event on the container; handleScroll of trackScroll runs when
\* the listener is attached.
ClassScrollEvent ==
  /\ variant = "class"
  /\ engine # "none"
  /\ \E top \in ScrollTops :
       /\ top <= ScrollRange(container)
       /\ top # container.scrollTop
       /\ container' = [container EXCEPT !.scrollTop = top]
       /\ LET handled == scrollListener /\ ReachedThreshold(container')
          IN /\ state' = IF handled THEN [state EXCEPT !.scrolled = TRUE]
                         ELSE state
             /\ IF handled THEN ClassNotify(state') ELSE UNCHANGED observed
             /\ lastOp' = [op |-> "scroll", handled |-> handled]
  /\ UNCHANGED <<variant, heap, now, engine, doc, scrollListener, inFlight, config,
                 superdoc, dom, tracking, hookVars>>

\* The signer edits the signature input; checkSignature of trackSignature
\* runs when the listeners are attached.
ClassSignatureInput ==
  /\ variant = "class"
  /\ engine # "none"
  /\ config.elements.signature
  /\ \E text \in SignatureTexts :
       /\ text # dom.signature
       /\ dom' = [dom EXCEPT !.signature = text]
       /\ LET hasSigned == hasSignatureValue(text)
              changed == tracking.signature /\ hasSigned # state.signed
          IN /\ state' = IF changed THEN [state EXCEPT !.signed = hasSigned]
                         ELSE state
             /\ IF changed THEN ClassNotify(state') ELSE UNCHANGED observed
             /\ lastOp' = [op |-> "signature", handled |-> changed]
  /\ UNCHANGED <<variant, heap, now, container, engine, doc, scrollListener,
                 inFlight, config, superdoc, tracking, hookVars>>

\* The signer toggles a consent checkbox; the change listener of
\* trackConsents runs when it is attached.
ClassConsentChange ==
  /\ variant = "class"
  /\ engine # "none"
  /\ config.elements.consents
  /\ \E id \in CheckboxNames :
       LET checked == id \notin dom.checked
           handled == id \in tracking.consents
       IN /\ dom' = [dom EXCEPT
                       !.checked = IF checked THEN @ \cup {id} ELSE @ \ {id}]
          /\ state' =
               IF handled
               THEN [state EXCEPT
                       !.consents = IF checked THEN @ \cup {id} ELSE @ \ {id}]
               ELSE state
          /\ IF handled THEN ClassNotify(state') ELSE UNCHANGED observed
          /\ lastOp' = [op |-> "consent", handled |-> handled]
  /\ UNCHANGED <<variant, heap, now, container, engine, doc, scrollListener,
                 inFlight, config, superdoc, tracking, hookVars>>

\* accept(): false when the session is not valid; otherwise the audit data
\* is built and onAccept is called and awaited.
ClassAccept ==
  /\ variant = "class"
  /\ engine # "none"
  /\ IF ~getStatus(config, state).isValid
     THEN /\ lastOp' = [op |-> "submit", result |-> "rejected",
                        returned |-> "false"]
          /\ UNCHANGED inFlight
     ELSE /\ Len(inFlight) < MaxInFlight
          /\ inFlight' = Append(inFlight, [resetSince |-> FALSE])
          /\ lastOp' = [op |-> "submit", result |-> "accepted",
                        before |-> [isValid |-> getStatus(config, state).isValid,
                                    isDisabled |-> FALSE,
                                    inFlight |-> Len(inFlight)],
                        onSubmit |-> AuditData(state, now)]
  /\ UNCHANGED <<variant, heap, now, container, engine, doc, scrollListener,
                 observed, classVars, hookVars>>

\* What the caller of accept() gets when onAccept has settled: the awaited
\* rejection is not caught.
ClassSettled(outcome) == IF outcome = "rejected" THEN "error" ELSE "data"

\* The host's onAccept promise settles and accept() resumes.
ClassSettle ==
  /\ variant = "class"
  /\ \E i \in 1..Len(inFlight), outcome \in {"resolved", "rejected"} :
       /\ inFlight' = RemoveAt(inFlight, i)
       /\ lastOp' = [op |-> "settle",
                     handler |-> outcome,
                     caller |-> ClassSettled(outcome),
                     resetSince |-> inFlight[i].resetSince]
  /\ UNCHANGED <<variant, heap, now, container, engine, doc, scrollListener,
                 observed, classVars, hookVars>>

\* The lists a host passes to updateFields after construction.
UpdateLists ==
  { << [id |-> "", alias |-> "company", value |-> Str(<<"B">>)] >>,
    << [id |-> "ghost", alias |-> "", value |-> Str(<<"B">>)] >>,
    << [id |-> "", alias |-> "ghost", value |-> Str(<<"B">>)] >> }

\* updateFields(fields), the public method.
ClassUpdateFields ==
  /\ variant = "class"
  /\ engine # "none"
  /\ \E updates \in UpdateLists :
       LET hasEditor == superdoc # "null" /\ engine = "ready"
           after == updateFields(state.fields, doc, hasEditor, updates)
       IN /\ state' = [state EXCEPT !.fields = after.fields]
          /\ doc' = after.doc
          /\ lastOp' = [op |-> "updateFields", updates |-> updates,
                        applied |-> hasEditor]
  /\ UNCHANGED <<variant, heap, now, container, engine, scrollListener, inFlight,
                 observed, config, superdoc, dom, tracking, hookVars>>

\* reset()
ClassReset ==
  /\ variant = "class"
  /\ engine # "none"
  /\ state' = [scrolled |-> FALSE, signed |-> FALSE, consents |-> {},
               startTime |-> now, fields |-> state.fields]
  /\ container' = [container EXCEPT !.scrollTop = 0]
  /\ ClassNotify(state')
  /\ lastOp' = [op |-> "reset", again |-> lastOp.op = "reset"]
  /\ UNCHANGED <<variant, heap, now, engine, doc, scrollListener, inFlight, config,
                 superdoc, dom, tracking, hookVars>>

\* destroy(): a controller-created engine is destroyed, a supplied one is

\* A faulty destroy() that tears down whatever engine it holds (fault
\* injection for C22).
DestroyWhateverHeld ==
  /\ variant = "class"
  /\ engine # "none"
  /\ LET owned == superdoc # "null"
     IN /\ observed' =
             [observed EXCEPT
                !.engineDestroyed = IF owned THEN @ + 1 ELSE @,
                !.destroyDuringInit = @ \/ engine = "importing"]
        /\ engine' = IF owned THEN "destroyed" ELSE engine
  /\ superdoc' = "null"
  /\ lastOp' = [op |-> "destroy", engineCalled |-> superdoc # "null"]
  /\ UNCHANGED <<variant, heap, now, container, doc, scrollListener, inFlight,
                 config, state, dom, tracking, hookVars>>

\* left alone; the reference is dropped either way.
ClassDestroy ==
  /\ variant = "class"
  /\ engine # "none"
  /\ LET owned == superdoc # "null" /\ config.mode # "supplied"
     IN /\ observed' =
             [observed EXCEPT
                !.engineDestroyed = IF owned THEN @ + 1 ELSE @,
                !.destroyDuringInit = @ \/ engine = "importing"]
        /\ engine' = IF owned THEN "destroyed" ELSE engine
  /\ superdoc' = "null"
  /\ lastOp' = [op |-> "destroy",
                engineCalled |-> superdoc # "null" /\ config.mode # "supplied"]
  /\ UNCHANGED <<variant, heap, now, container, doc, scrollListener, inFlight,
                 config, state, dom, tracking, hookVars>>

\* Time passes.
Tick ==
  /\ now < MaxTime
  /\ now' = now + 1
  /\ lastOp' = [op |-> "tick"]
  /\ UNCHANGED <<variant, heap, container, engine, doc, scrollListener, inFlight,
                 observed, hookVars, classVars>>

NextHook ==
  \/ HookRender
  \/ HookRunEffects
  \/ HookInitSuperDoc
  \/ HookOnReady
  \/ HookScrollEvent
  \/ HookFieldChange
  \/ HookSubmit
  \/ HookSettle
  \/ HookDownload
  \/ HookReset
  \/ Tick

SpecHook == InitHook /\ [][NextHook]_vars

NextClass ==
  \/ ClassInit
  \/ ClassInitSuperDoc
  \/ ClassOnSuperDocReady
  \/ ClassScrollEvent
  \/ ClassSignatureInput
  \/ ClassConsentChange
  \/ ClassAccept
  \/ ClassSettle
  \/ ClassUpdateFields
  \/ ClassReset
  \/ ClassDestroy
  \/ Tick

SpecClass == InitClass /\ [][NextClass]_vars

\* ------------------------------------------------- functions on their own
\* Values a host or a signer component can hand over as a FieldValue.
FieldValueSamples ==
  { Undefined, Null,
    Str(<<>>), Str(<<" ">>), Str(<<"J">>), Str(<<" ", "J", " ">>),
    Str(<<"data:image/", "x">>),
    Num(0), Num(1), Bool(FALSE), Bool(TRUE) }

\* Everything but lastOp and doc, in a behaviour that only applies functions.
PureUnused ==
  /\ now = 0
  /\ container = NoNotice
  /\ engine = "ready"
  /\ scrollListener = FALSE
  /\ inFlight = <<>>
  /\ observed = InitObserved
  /\ HookUnused
  /\ ClassUnused

\* The entries a host may put in config.fields: by id, by alias or by both,
\* for placeholders the document has and for ones it has not.
Declarations ==
  { f \in [id : {"", "c1", "c2", "ghost"},
           alias : {"", "company", "note", "ghost"},
           value : {Str(<<"Acme">>), Str(<<>>)}] :
      f.id # "" \/ f.alias # "" }

\* An argument is chosen: a field id, whether the signer field is required,
\* and a value; or a declaration of config.fields.
InitPure ==
  /\ variant = "pure"
  /\ heap = NoHeap
  /\ \/ lastOp \in [op : {"input"}, id : {"signature", "fullName"},
                    required : BOOLEAN, value : FieldValueSamples]
     \/ lastOp \in [op : {"declared"}, field : Declarations]
  /\ doc = InitialDoc
  /\ PureUnused

\* checkIsValid() of a component with no scroll requirement whose signer
\* field holds the chosen value.
PureCheckIsValid ==
  /\ variant = "pure"
  /\ lastOp.op = "input"
  /\ lastOp' =
       [op |-> "checkIsValid",
        input |-> lastOp,
        result |->
          checkIsValid([scrollRequired |-> FALSE, isDisabled |-> FALSE,
                        required |-> IF lastOp.required THEN SignerIdSet ELSE {}],
                       TRUE,
                       [id \in SignerIdSet |-> lastOp.value])]
  /\ UNCHANGED <<variant, heap, now, container, engine, doc, scrollListener,
                 inFlight, observed, hookVars, classVars>>

\* updateFieldInDocument({id, value}) on an active editor.
PureUpdateField ==
  /\ variant = "pure"
  /\ lastOp.op = "input"
  /\ doc' = updateFieldInDocument(doc, TRUE, lastOp.id, lastOp.value)
  /\ lastOp' = [op |-> "updateFieldInDocument", addressing |-> "id",
                input |-> lastOp]
  /\ UNCHANGED <<variant, heap, now, container, engine, scrollListener, inFlight,
                 observed, hookVars, classVars>>

\* updateFieldInDocument({id, alias, value}) of the alias-addressed
\* component on an active editor, as handleFieldChange calls it for a signer
\* field: with the field's id and its alias.
PureUpdateFieldByAlias ==
  /\ variant = "pure"
  /\ lastOp.op = "input"
  /\ doc' = updateFieldInDocumentByAlias(doc, TRUE, lastOp.id, lastOp.id,
                                         lastOp.value)
  /\ lastOp' = [op |-> "updateFieldInDocument", addressing |-> "alias",
                input |-> lastOp]
  /\ UNCHANGED <<variant, heap, now, container, engine, scrollListener, inFlight,
                 observed, hookVars, classVars>>

\* discoverFields() of a class whose config.fields holds the chosen
\* declaration, on an active editor.
PureDiscoverFields ==
  /\ variant = "pure"
  /\ lastOp.op = "declared"
  /\ lastOp' = [op |-> "discoverFields", input |-> lastOp,
                result |-> ClassDiscovered([fields |-> <<lastOp.field>>])]
  /\ UNCHANGED <<variant, heap, now, container, engine, doc, scrollListener,
                 inFlight, observed, hookVars, classVars>>

NextPure ==
  \/ PureDiscoverFields
  \/ PureCheckIsValid
  \/ PureUpdateField
  \/ PureUpdateFieldByAlias

SpecPure == InitPure /\ [][NextPure]_vars

\* --------------------------------------------------------------- recorder
\* The audit trail arrays as objects.  arrays[a] is the content of the array
\* at address a; ref is auditTrailRef.current, state the array last passed to
\* setAuditTrail, rendered the auditTrail of the last render; syncPending says
\* the effect on [auditTrail] has not run since the last commit; snaps are
\* the arrays handed out (returned or put in a payload), each with the
\* content it had when handed out; recorded are the events passed to
\* addAuditEvent since the last reset, in call order.
InitHeap ==
  [arrays |-> << <<>>, <<>> >>, ref |-> 1, state |-> 2, rendered |-> 2,
   syncPending |-> FALSE, snaps |-> {}, recorded |-> <<>>]

\* The types of the events the handlers record.
RecordedTypes == {"scroll", "field_change"}

\* A handed-out array with its content at hand-out.
Snapshot(h, a) == [addr |-> a, copy |-> h.arrays[a]]

\* A faulty addAuditEvent that pushes onto the current array (fault
\* injection for C19).
AddAuditEventInPlace(h, event) ==
  [h EXCEPT !.arrays[h.ref] = Append(@, event), !.state = h.ref,
            !.recorded = Append(@, event)]

\* addAuditEvent: nextTrail = [...auditTrailRef.current, auditEvent] is a new
\* array; the ref and the state both hold it, and it is returned.
addAuditEvent(h, event) ==
  LET nextTrail == Len(h.arrays) + 1
  IN [h EXCEPT !.arrays = Append(@, Append(h.arrays[h.ref], event)),
               !.ref = nextTrail,
               !.state = nextTrail,
               !.recorded = Append(@, event)]

InitRecorder ==
  /\ variant = "recorder"
  /\ heap = InitHeap
  /\ lastOp = [op |-> "mount"]
  /\ doc = InitialDoc
  /\ PureUnused

\* A handler records an event and keeps the trail addAuditEvent returns.
RecorderRecord ==
  /\ variant = "recorder"
  /\ Len(heap.arrays) < MaxArrays
  /\ Len(heap.arrays[heap.ref]) < MaxTrail
  /\ \E type \in RecordedTypes :
       LET h == addAuditEvent(heap, [type |-> type, timestamp |-> now])
       IN heap' = [h EXCEPT !.snaps = @ \cup {Snapshot(h, h.ref)}]
  /\ lastOp' = [op |-> "record"]
  /\ UNCHANGED <<variant, now, container, engine, doc, scrollListener,
                 inFlight, observed, hookVars, classVars>>

\* handleSubmit: two submit events; the payload carries the trail the second
\* addAuditEvent returned.
RecorderSubmit ==
  /\ variant = "recorder"
  /\ Len(heap.arrays) + 2 <= MaxArrays
  /\ Len(heap.arrays[heap.ref]) + 2 <= MaxTrail
  /\ LET event == [type |-> "submit", timestamp |-> now]
         h == addAuditEvent(addAuditEvent(heap, event), event)
     IN heap' = [h EXCEPT !.snaps = @ \cup {Snapshot(h, h.ref)}]
  /\ lastOp' = [op |-> "submit"]
  /\ UNCHANGED <<variant, now, container, engine, doc, scrollListener,
                 inFlight, observed, hookVars, classVars>>

\* getAuditTrail() of the imperative handle: auditTrailRef.current itself.
RecorderGetAuditTrail ==
  /\ variant = "recorder"
  /\ Snapshot(heap, heap.ref) \notin heap.snaps
  /\ heap' = [heap EXCEPT !.snaps = @ \cup {Snapshot(heap, heap.ref)}]
  /\ lastOp' = [op |-> "getAuditTrail"]
  /\ UNCHANGED <<variant, now, container, engine, doc, scrollListener,
                 inFlight, observed, hookVars, classVars>>

\* reset(): auditTrailRef.current = []; setAuditTrail([]), two new arrays.
RecorderReset ==
  /\ variant = "recorder"
  /\ Len(heap.arrays) + 2 <= MaxArrays
  /\ heap' = [heap EXCEPT !.arrays = @ \o << <<>>, <<>> >>,
                          !.ref = Len(heap.arrays) + 1,
                          !.state = Len(heap.arrays) + 2,
                          !.recorded = <<>>]
  /\ lastOp' = [op |-> "reset"]
  /\ UNCHANGED <<variant, now, container, engine, doc, scrollListener,
                 inFlight, observed, hookVars, classVars>>

\* React renders with the array last passed to setAuditTrail.
RecorderRender ==
  /\ variant = "recorder"
  /\ heap.rendered # heap.state
  /\ heap' = [heap EXCEPT !.rendered = heap.state, !.syncPending = TRUE]
  /\ lastOp' = [op |-> "render"]
  /\ UNCHANGED <<variant, now, container, engine, doc, scrollListener,
                 inFlight, observed, hookVars, classVars>>

\* The effect on [auditTrail]: auditTrailRef.current = auditTrail.
RecorderSync ==
  /\ variant = "recorder"
  /\ heap.syncPending
  /\ heap' = [heap EXCEPT !.ref = heap.rendered, !.syncPending = FALSE]
  /\ lastOp' = [op |-> "sync"]
  /\ UNCHANGED <<variant, now, container, engine, doc, scrollListener,
                 inFlight, observed, hookVars, classVars>>

NextRecorder ==
  \/ RecorderRecord
  \/ RecorderSubmit
  \/ RecorderGetAuditTrail
  \/ RecorderReset
  \/ RecorderRender
  \/ RecorderSync
  \/ Tick

SpecRecorder == InitRecorder /\ [][NextRecorder]_vars

\* Both controllers: a behaviour is a session of the component or a session
\* of the class.
Init == InitHook \/ InitClass

Next == NextHook \/ NextClass

Spec == Init /\ [][Next]_vars

\* The host's handler settles every call it was handed; nothing else is
\* assumed of the scheduling.
FairSpecHook == SpecHook /\ WF_vars(HookSettle)

\* ------------------------------------------------------------------ claims
\* The step just taken was a call of submit() / accept().
SubmitCalled == lastOp.op = "submit"

\* C1: the host's submit handler is invoked only from a state in which
\* isValid is true, the session is not disabled and no earlier submit is
\* still in flight.
C1_HandlerOnlyFromAllowedState ==
  (SubmitCalled /\ lastOp.result = "accepted") =>
     /\ lastOp.before.isValid
     /\ ~lastOp.before.isDisabled
     /\ lastOp.before.inFlight = 0

\* C2: a submit() / accept() issued while an earlier call's handler has not
\* settled returns the failure value, does not invoke the handler again and
\* appends no submit audit event.
C2_SecondSubmitRejected ==
  [][(Len(inFlight) > 0 /\ lastOp'.op = "submit") =>
        /\ lastOp'.result = "rejected"
        /\ inFlight' = inFlight
        /\ auditTrailRef' = auditTrailRef]_vars

\* C3: a rejected submit() / accept() changes nothing: the audit trail, the
\* submitting flag, the tracked signals, the field values and the document
\* stay as they are, no handler is invoked, no observer is notified and no
\* render or effect is scheduled.
C3_RejectedSubmitChangesNothing ==
  [][(lastOp'.op = "submit" /\ lastOp'.result = "rejected") =>
        UNCHANGED <<auditTrail, auditTrailRef, isSubmitting, scrolled,
                    fieldValues, isValid, isReady, dirty, effectsPending,
                    state, dom, doc, container, observed, inFlight>>]_vars

\* A submit was rejected while an earlier one was still in flight.
C3_Witness ==
  /\ SubmitCalled
  /\ lastOp.result = "rejected"
  /\ Len(inFlight) > 0

\* C4: whenever the submitting flag is raised it is lowered again once the
\* host's handler settles, whether the handler resolves or rejects.
C4_SubmittingEventuallyCleared == isSubmitting ~> ~isSubmitting

\* The handler of the only submit in flight has rejected and the flag is
\* down.
C4_Witness ==
  /\ variant = "hook"
  /\ lastOp.op = "settle"
  /\ lastOp.handler = "rejected"
  /\ inFlight = <<>>
  /\ ~isSubmitting

\* The handler of the call that has just settled threw or rejected.
HandlerFailed(op) == op.op = "settle" /\ op.handler = "rejected"

\* C5: when the host's handler rejects, the caller of submit() / accept()
\* gets the error, the submitting flag is down by then, and the submit event
\* recorded on entry is still in the component's audit trail (a trail that
\* reset() has emptied since the call was accepted is left out of account).
C5_HandlerErrorPropagates ==
  [][HandlerFailed(lastOp') =>
        /\ lastOp'.caller = "error"
        /\ ~isSubmitting'
        /\ (variant = "hook" /\ ~lastOp'.resetSince) =>
              CountType(auditTrailRef', "submit") >= 1]_vars

\* C6: a non-empty audit trail holds exactly one ready event, and it is the
\* first element.
C6_ReadyFirstAndOnce ==
  auditTrailRef # <<>> =>
     /\ auditTrailRef[1].type = "ready"
     /\ CountType(auditTrailRef, "ready") = 1

\* C7: an accepted submit appends exactly one submit event to the audit
\* trail, and the trail inside the payload handed to onSubmit holds at most
\* one submit event.
C7_OneSubmitEvent ==
  [][(variant = "hook" /\ lastOp'.op = "submit" /\ lastOp'.result = "accepted") =>
        /\ CountType(auditTrailRef', "submit")
             = CountType(auditTrailRef, "submit") + 1
        /\ CountType(lastOp'.onSubmit.auditTrail, "submit") <= 1]_vars

\* C8: with scroll required, a scroll event received while scrolled is
\* already true (in the queued state and in the last render alike) appends
\* nothing to the audit trail.
C8_ScrollRecordedOnce ==
  [][(/\ variant = "hook"
      /\ props.scrollRequired
      /\ scrolled
      /\ rendered.scrolled
      /\ lastOp'.op = "scroll") =>
        auditTrailRef' = auditTrailRef]_vars

\* The scroll signal of the session, whichever controller runs it.
Scrolled == IF variant = "hook" THEN scrolled ELSE state.scrolled

ScrollRequired ==
  IF variant = "hook" THEN props.scrollRequired ELSE config.scroll

\* C9: once scrolled is true, no step other than reset() or destroy() sets it
\* back to false.
C9_ScrolledMonotonic ==
  [][(Scrolled /\ lastOp'.op \notin {"reset", "destroy"}) => Scrolled']_vars

\* The signer has scrolled back to the top of a document whose end they had
\* reached, and the signal is still up.
C9_Witness ==
  /\ ScrollRequired
  /\ lastOp.op = "scroll"
  /\ container.scrollTop = 0
  /\ Scrolled

\* The session requires nothing of the signer.
NoRequirements ==
  IF variant = "hook"
  THEN ~props.scrollRequired /\ props.required = {}
  ELSE ~config.scroll /\ ~config.signature /\ config.consents = <<>>

\* The engine's ready notification has been processed.
ReadyProcessed == IF variant = "hook" THEN isReady ELSE observed.onReady > 0

\* The validity the session holds.
SessionValid ==
  IF variant = "hook" THEN isValid ELSE getStatus(config, state).isValid

\* C10: in a session that requires nothing, isValid is true right after the
\* ready notification has been processed, and the first validity value
\* handed to the observer after ready is true.
C10_ValidWithoutRequirements ==
  (NoRequirements /\ lastOp.op = "ready") =>
     /\ SessionValid
     /\ observed.firstValidAfterReady # "false"

\* The consent names the class session requires.
RequiredConsents == SeqToSet(config.consents)

\* C11: isValid is false whenever the consent set misses a required name,
\* and with the scroll and signature verdicts satisfied it is true exactly
\* when the consent set includes every required name.
C11_ValidityFollowsConsents ==
  variant = "class" =>
    LET status == getStatus(config, state)
        given == RequiredConsents \subseteq state.consents
    IN /\ ~given => ~status.isValid
       /\ (status.scroll /\ status.signature) => (status.isValid <=> given)

\* A required consent has just been withdrawn from a session that had all
\* its consents and its other signals, and the session is invalid again.
C11_Witness ==
  /\ variant = "class"
  /\ lastOp.op = "consent"
  /\ lastOp.handled
  /\ RequiredConsents # {}
  /\ "privacy" \in state.consents
  /\ ~(RequiredConsents \subseteq state.consents)
  /\ getStatus(config, state).scroll
  /\ getStatus(config, state).signature
  /\ ~getStatus(config, state).isValid

\* The class session requires a signature and nothing else.
SignatureOnly ==
  /\ variant = "class"
  /\ ~config.scroll
  /\ config.signature
  /\ config.consents = <<>>

\* C12: in a session that requires a signature and nothing else, once
\* signature tracking runs isValid is true when the signature element holds
\* a non-blank value and false when it is blank, both right after the ready
\* transition and after every edit of the element.
C12_SignatureDecidesValidity ==
  (SignatureOnly /\ tracking.signature /\ lastOp.op \in {"ready", "signature"}) =>
     (getStatus(config, state).isValid <=> hasSignatureValue(dom.signature))

\* The conjunction of the requirement verdicts of a component session over
\* the signals scr and values: scroll, and every required signer field (the
\* component has no separate signature or consent requirement: both are
\* signer fields).
HookVerdicts(scr, values) ==
  /\ ~props.scrollRequired \/ scr
  /\ \A id \in props.required : FieldSatisfied(TRUE, values[id])

\* The conjunction of the requirement verdicts of a class session: scroll,
\* signature and every required consent (the class has no required field).
ClassVerdicts ==
  /\ ~config.scroll \/ state.scrolled
  /\ ~config.signature \/ state.signed
  /\ \A id \in RequiredConsents : id \in state.consents

DefinedAndNotBlank(v) ==
  /\ v.t \notin {"undefined", "null"}
  /\ v.t = "string" => Trim(v.s) # <<>>

\* C14: a required signer field is judged satisfied exactly when its value
\* is defined, not null and, if a string, non-blank after trimming; 0 and
\* false count as satisfied.
C14_RequiredFieldVerdict ==
  (variant = "pure" /\ lastOp.op = "checkIsValid" /\ lastOp.input.required) =>
     (lastOp.result <=> DefinedAndNotBlank(lastOp.input.value))

\* getFields()
getFields == state.fields

\* C15: an update addressed by alias only sets the registry value of every
\* tracked field that carries the alias.
C15_AliasUpdateBroadcasts ==
  (variant = "class" /\ lastOp.op = "updateFields" /\ lastOp.applied) =>
     \A k \in 1..Len(lastOp.updates) :
        (lastOp.updates[k].id = "" /\ lastOp.updates[k].alias # "") =>
           \A i \in 1..Len(getFields) :
              getFields[i].label = lastOp.updates[k].alias =>
                 getFields[i].value = lastOp.updates[k].value

\* The positions of the placeholders that carry alias.
TagsWithAlias(alias) == {i \in 1..Len(EngineTags) : EngineTags[i].alias = alias}

\* Every entry of a field list labelled alias holds value.
AllHold(list, alias, value) ==
  \A i \in 1..Len(list) : list[i].label = alias => list[i].value = value

\* C16: with {alias: "company", value: "Acme"} declared and two placeholders
\* of alias "company" discovered, after the ready transition both hold
\* "Acme" in the registry, both were reported with "Acme" to
\* onFieldsDiscovered, and the engine shows "Acme" at both.
C16_DeclaredAliasSeedsAll ==
  (variant = "class" /\ lastOp.op = "ready" /\ superdoc # "null") =>
     \A k \in 1..Len(config.fields) :
        (config.fields[k].id = "" /\ config.fields[k].alias # "") =>
           /\ AllHold(getFields, config.fields[k].alias, config.fields[k].value)
           /\ observed.onFieldsDiscovered # NoNotice
           /\ AllHold(observed.onFieldsDiscovered, config.fields[k].alias,
                      config.fields[k].value)
           /\ \A i \in TagsWithAlias(config.fields[k].alias) :
                 doc[i] = TextPayload(JsString(config.fields[k].value))

\* The ready transition of a class session has seeded two placeholders
\* that share the declared alias.
C16_Witness ==
  /\ variant = "class"
  /\ lastOp.op = "ready"
  /\ Cardinality(TagsWithAlias("company")) = 2
  /\ Cardinality({i \in 1..Len(getFields) :
                    getFields[i].label = "company"
                      /\ getFields[i].value = Str(<<"Acme">>)}) = 2
  /\ doc[3] = TextPayload(<<"Acme">>)

\* The position of the placeholder with id.
TagWithId(id) == CHOOSE i \in 1..Len(EngineTags) : EngineTags[i].id = id

\* C17: pushing a signature-kind signer field with a non-empty value sends
\* the engine an image, never the literal text: an image reference passes
\* through as the image source, anything else becomes a generated image.
C17_SignaturePushedAsImage ==
  (/\ variant = "pure"
   /\ lastOp.op = "updateFieldInDocument"
   /\ SignerFieldOf(lastOp.input.id).type = "signature"
   /\ lastOp.input.value.t = "string"
   /\ lastOp.input.value.s # <<>>) =>
     LET chars == lastOp.input.value.s
         pushed == doc[TagWithId(lastOp.input.id)]
     IN /\ DOMAIN pushed = {"json"}
        /\ pushed.json.type = "image"
        /\ IF chars[1] = "data:image/"
           THEN pushed.json.attrs.src = chars
           ELSE /\ pushed.json.attrs.src # chars
                /\ pushed.json.attrs.src[1] = "data:image/"

\* What a host can observe of the session: the signals, the validity, the
\* field values and the audit trail (hook: the component state and what
\* getState() returns; class: the tracked state, the status and the fields).
ObservableState ==
  IF variant = "hook"
  THEN [scrolled |-> scrolled, fieldValues |-> fieldValues,
        isValid |-> isValid, auditTrail |-> auditTrail,
        recorder |-> auditTrailRef, handle |-> getState]
  ELSE [scrolled |-> state.scrolled, signed |-> state.signed,
        consents |-> state.consents, status |-> getStatus(config, state),
        fields |-> getFields, scrollTop |-> container.scrollTop]

\* C18: reset() called right after reset() leaves the observable state (the
\* signals, the validity, the field values, the audit trail) as the first
\* call left it.
C18_ResetIdempotent ==
  [][(/\ variant \in {"hook", "class"}
      /\ lastOp.op = "reset"
      /\ lastOp'.op = "reset") => ObservableState' = ObservableState]_vars

\* A second reset in a row has run, on a session that had been used.
C18_Witness ==
  /\ lastOp.op = "reset"
  /\ lastOp.again
  /\ \/ variant = "hook" /\ isReady
     \/ variant = "class" /\ engine = "ready"

\* C19: an audit trail that was handed out (returned by the recorder, put in
\* a submit payload, or returned by getAuditTrail) keeps the content it had
\* when it was handed out, whatever is recorded or reset afterwards.
C19_SnapshotIsolation ==
  variant = "recorder" =>
    \A s \in heap.snaps : heap.arrays[s.addr] = s.copy

\* A non-empty trail was handed out, and the recorder has since recorded more
\* or been reset, so that its current trail differs from the one handed out.
C19_Witness ==
  /\ variant = "recorder"
  /\ lastOp.op \in {"record", "submit", "reset"}
  /\ \E s \in heap.snaps :
       /\ s.copy # <<>>
       /\ s.addr # heap.ref
       /\ heap.arrays[heap.ref] # s.copy

\* C20: right after reset(), scrolled is its default (true exactly when
\* scrolling is not required), the signer field values and the audit trail
\* are empty, and the validity the session reports is checkIsValid /
\* getStatus evaluated on those cleared signals.
C20_ResetClearsAndReevaluates ==
  lastOp.op = "reset" =>
    IF variant = "hook"
    THEN /\ scrolled = ~props.scrollRequired
         /\ fieldValues = NoFields
         /\ auditTrail = <<>>
         /\ auditTrailRef = <<>>
         /\ isValid = checkIsValid(props, scrolled, fieldValues)
    ELSE /\ getStatus(config, state).scroll = ~config.scroll
         /\ ~state.signed
         /\ state.consents = {}

\* C21: after reset() every tracked field holds its declared initial value
\* (the value discovery seeded it with), whatever updateFields wrote since,
\* and the tracked fields are the same fields as before.
C21_ResetRestoresInitialValues ==
  (/\ variant = "class"
   /\ lastOp.op = "reset"
   /\ state.fields # <<>>) => state.fields = ClassDiscovered(config)

\* C22: destroy() never calls destroy of an engine the host supplied, and
\* calls destroy of an engine the controller created at most once, however
\* often destroy() is called.
C22_DestroyOnlyOwnedEngineOnce ==
  variant = "class" =>
    /\ config.mode = "supplied" => observed.engineDestroyed = 0
    /\ observed.engineDestroyed <= 1

\* destroy() was called again on a controller whose own engine it had
\* already torn down.
C22_Witness ==
  /\ variant = "class"
  /\ config.mode = "create"
  /\ lastOp.op = "destroy"
  /\ ~lastOp.engineCalled
  /\ observed.engineDestroyed = 1

\* destroy() has been called: the controller's own engine is torn down, or
\* the call is the step just taken.
Destroyed == engine = "destroyed" \/ lastOp.op = "destroy"

\* C23: once destroy() has been called, a scroll, a signature input or a
\* consent toggle neither changes the tracked signals nor reaches a host
\* observer.
C23_DestroyedIsTerminal ==
  [][(/\ variant = "class"
      /\ Destroyed
      /\ lastOp'.op \in {"scroll", "signature", "consent"}) =>
        /\ state' = state
        /\ observed' = observed
        /\ ~lastOp'.handled]_vars

\* The field map has a field for the update: one with its id, or, for an
\* update that gives no id, one labelled with its alias.
KnownToRegistry(fields, u) ==
  IF u.id # ""
  THEN \E i \in 1..Len(fields) : fields[i].id = u.id
  ELSE u.alias # "" /\ \E i \in 1..Len(fields) : fields[i].label = u.alias

\* C24: updateFields with updates the field map has no field for leaves the
\* field map as it is (no field created, no value changed) and does not
\* reach onError.
C24_UnknownUpdateIsNoOp ==
  [][(/\ variant = "class"
      /\ lastOp'.op = "updateFields"
      /\ \A i \in 1..Len(lastOp'.updates) :
           ~KnownToRegistry(state.fields, lastOp'.updates[i])) =>
        /\ state'.fields = state.fields
        /\ observed'.onError = observed.onError]_vars

\* updateFields has just run on an active editor with discovered fields,
\* for an id the field map does not hold.
C24_Witness ==
  /\ variant = "class"
  /\ lastOp.op = "updateFields"
  /\ lastOp.applied
  /\ state.fields # <<>>
  /\ lastOp.updates[1].id = "ghost"
  /\ ~KnownToRegistry(state.fields, lastOp.updates[1])

\* The controller holds an engine instance that has an active editor.
EngineReady ==
  /\ engine = "ready"
  /\ IF variant = "hook" THEN superdocRef = "instance" ELSE superdoc # "null"

\* C25: a field value pushed (a signer's edit in the component,
\* updateFields in the class) while the engine is not ready issues no update
\* to the engine's document and reports no error.
C25_PushBeforeReadyIsNoOp ==
  [][(/\ variant \in {"hook", "class"}
      /\ lastOp'.op \in {"fieldChange", "updateFields"}
      /\ ~EngineReady) =>
        /\ doc' = doc
        /\ observed'.onError = observed.onError]_vars

\* A signer's edit has just been handled by a component whose engine is not
\* ready.
C25_Witness ==
  /\ variant = "hook"
  /\ lastOp.op = "fieldChange"
  /\ ~EngineReady
  /\ fieldValues["signature"] = Str(<<"J">>)

\* C26: a class constructed with neither an engine instance nor a document
\* and container reports the configuration error through onError exactly
\* once and never starts tracking: onReady and onFieldsDiscovered are not
\* invoked and no listener is attached.
C26_ConfigErrorReportedOnce ==
  (variant = "class" /\ config.mode = "none" /\ engine # "none") =>
     /\ engine = "failed"
     /\ observed.onError = 1
     /\ observed.onReady = 0
     /\ observed.onFieldsDiscovered = NoNotice
     /\ ~scrollListener
     /\ ~tracking.signature
     /\ tracking.consents = {}

\* Construction has failed on the missing configuration and the signer has
\* scrolled the container to its end since.
C26_Witness ==
  /\ variant = "class"
  /\ config.mode = "none"
  /\ config.scroll
  /\ lastOp.op = "scroll"
  /\ ReachedThreshold(container)

\* A download step leaves the audit trail, the submitting flag and the
\* tracked signals as they were.
DownloadChangesNothing ==
  /\ auditTrail' = auditTrail
  /\ auditTrailRef' = auditTrailRef
  /\ isSubmitting' = isSubmitting
  /\ scrolled' = scrolled
  /\ fieldValues' = fieldValues
  /\ isValid' = isValid

C28_ObserversSeeFreshValidity ==
  variant = "hook" =>
    /\ (lastOp.op = "effects" /\ lastOp.onStateChange # NoNotice) =>
          lastOp.onStateChange.isValid =
            checkIsValid(props, lastOp.onStateChange.scrolled,
                         lastOp.onStateChange.fields)
    /\ rendered.isReady =>
          getState.isValid =
            checkIsValid(props, getState.scrolled, getState.fields)

\* C29: on the engine's ready notification the declared values are pushed
\* into the document before onFieldsDiscovered is notified, the ready audit
\* event is recorded after the notification, and tracking begins last: the
\* observer of onFieldsDiscovered finds the document with the values pushed,
\* the audit trail without the ready event and no scroll listener attached.
C29_ReadyOrder ==
  (/\ variant \in {"hook", "class"}
   /\ lastOp.op = "ready"
   /\ lastOp.atDiscovered # NoNotice) =>
     /\ lastOp.atDiscovered.doc = doc
     /\ ~lastOp.atDiscovered.listening
     /\ variant = "hook" =>
          /\ auditTrailRef = AddAuditEvent(lastOp.atDiscovered.auditTrail,
                                           ReadyEvent)
          /\ ~scrollListener

\* The declaration is for the placeholder: it names the placeholder's id or
\* the placeholder's alias.
DeclaredFor(f, tag) ==
  \/ f.id # "" /\ f.id = tag.id
  \/ f.alias # "" /\ f.alias = tag.alias

\* C30: every discovered placeholder is seeded with the declared value when
\* the declaration names it by id or by alias (also when the declaration
\* gives both), and with its own text content otherwise.
C30_SeedPrecedence ==
  (variant = "pure" /\ lastOp.op = "discoverFields") =>
     \A i \in 1..Len(EngineTags) :
        lastOp.result[i].value =
          IF DeclaredFor(lastOp.input.field, EngineTags[i])
          THEN lastOp.input.field.value
          ELSE Str(EngineTags[i].textContent)

\* The initial scroll check has just run: the class runs it inside the ready
\* handling, the component in the scroll effect of the first ready render.
InitialScrollCheckDone ==
  IF variant = "hook"
  THEN lastOp.op = "effects" /\ "scroll" \in lastOp.ran /\ rendered.isReady
  ELSE lastOp.op = "ready"

\* C31: with scroll required and content no higher than the viewport, the
\* initial scroll check after ready sets scrolled, without any scroll event.
C31_UnscrollableCountsAsScrolled ==
  (/\ variant \in {"hook", "class"}
   /\ ScrollRequired
   /\ container.scrollHeight <= container.clientHeight
   /\ InitialScrollCheckDone) => Scrolled

\* The step is a submit the guard let through.
AcceptedSubmitStep ==
  variant = "hook" /\ lastOp'.op = "submit" /\ lastOp'.result = "accepted"

\* C32: the payload of an accepted submit is built from the state as it is
\* at the call: its audit trail is the recorder's trail extended to end with
\* the submit event just recorded, and its signer fields carry the values
\* the fields hold at that moment.
C32_PayloadFromLiveState ==
  [][AcceptedSubmitStep =>
        LET payload == lastOp'.onSubmit
            n == Len(payload.auditTrail)
        IN /\ n > Len(auditTrailRef)
           /\ SubSeq(payload.auditTrail, 1, Len(auditTrailRef)) = auditTrailRef
           /\ payload.auditTrail[n] = SubmitEvent
           /\ payload.auditTrail = auditTrailRef'
           /\ payload.signerFields = SignerFieldValues(fieldValues)]_vars

AllHaveId(list) == \A i \in 1..Len(list) : list[i].id # ""

\* C34: a placeholder without an id is dropped by discovery: it is neither
\* reported to onFieldsDiscovered nor kept in the field registry that
\* getFields() returns.
C34_PlaceholdersWithoutIdDropped ==
  variant \in {"hook", "class"} =>
    /\ observed.onFieldsDiscovered # NoNotice =>
         AllHaveId(observed.onFieldsDiscovered)
    /\ variant = "class" => AllHaveId(getFields)

\* The start of the session clock, from which submit / accept compute the
\* duration they report (now - start).
SessionClock == IF variant = "hook" THEN startTimeRef ELSE state.startTime

\* C35: reset() restarts the session clock, so that the duration a later
\* submit / accept reports is measured from the reset: right after reset()
\* the clock starts at the current time.
C35_ResetRestartsClock ==
  (variant \in {"hook", "class"} /\ lastOp.op = "reset") => SessionClock = now

\* s is an initial part of t.
IsPrefix(s, t) == Len(s) <= Len(t) /\ SubSeq(t, 1, Len(s)) = s

\* C36: between resets the audit trail only grows at its end: a step other
\* than reset() leaves the trail that getAuditTrail() returns, and the trail
\* the component state holds, an initial part of what they are afterwards.
C36_TrailAppendOnly ==
  [][(variant = "hook" /\ lastOp'.op # "reset") =>
        /\ IsPrefix(auditTrailRef, auditTrailRef')
        /\ IsPrefix(auditTrail, auditTrail')]_vars

\* C38: no recorded event is lost: whatever the interleaving of
\* addAuditEvent with the effect that copies the rendered trail into
\* auditTrailRef, the trail getAuditTrail() returns holds every event passed
\* to addAuditEvent since the last reset, in call order.
C38_NoEventLost ==
  variant = "recorder" => heap.arrays[heap.ref] = heap.recorded

\* C37: the payload handed to onSubmit meets the requirements on its own
\* contents: every required signer field has a satisfying value in
\* payload.signerFields, and scrolled is true if scrolling is required.
C37_PayloadMeetsRequirements ==
  [][AcceptedSubmitStep =>
        LET signer == lastOp'.onSubmit.signerFields
        IN /\ \A i \in 1..Len(signer) :
                FieldSatisfied(signer[i].id \in props.required, signer[i].value)
           /\ props.scrollRequired => scrolled]_vars

\* C39: when destroy() was called while the controller's own engine
\* initialisation was still pending, no engine instance of the controller is
\* alive afterwards and the ready handling has not run: nothing was
\* discovered, no listener is attached and onReady was not invoked.
C39_DestroyDuringInit ==
  (variant = "class" /\ observed.destroyDuringInit) =>
     /\ ~(superdoc = "instance" /\ engine \in {"loading", "ready"})
     /\ observed.onReady = 0
     /\ observed.onFieldsDiscovered = NoNotice
     /\ ~scrollListener

\* C40: once consent tracking has started, the consent set the controller
\* holds is the set of the tracked checkboxes that are checked at that
\* moment; a checkbox left checked across reset() still counts.
C40_ConsentsMirrorCheckboxes ==
  (variant = "class" /\ tracking.consents # {}) =>
     state.consents = dom.checked \cap tracking.consents

====
